---------------------------- MODULE Spec2Model ----------------------------
(***************************************************************************)
(* Model of src/main.py: the HOA document analysis pipeline.               *)
(*                                                                         *)
(*   - upload_files_to_vector_store: per-document staging through a        *)
(*     temporary file, upload, cleanup, batch submission and polling;      *)
(*   - ask_question / ask_questions: one thread, one message and one run   *)
(*     per question, status polling, record construction;                  *)
(*   - create_summary_table: prefix-match reduction of the answer records  *)
(*     to one entry per category.                                          *)
(*                                                                         *)
(* Text that the program slices, searches, concatenates or compares by     *)
(* prefix is a sequence of one-character strings, so that str.startswith,  *)
(* slicing, split, replace, strip and join are computed, not assumed.      *)
(* A character outside ASCII is written "U+XXXX".  Opaque labels (the      *)
(* category names, control positions) are plain strings.                   *)
(***************************************************************************)
EXTENDS Integers, Sequences, FiniteSets, TLC

(***************************************************************************)
(* Python text operations on character sequences.                          *)
(***************************************************************************)
Min(a, b) == IF a <= b THEN a ELSE b

\* s[:n]
Prefix(s, n) == SubSeq(s, 1, Min(n, Len(s)))

\* s.startswith(p)
StartsWith(s, p) == Len(p) <= Len(s) /\ SubSeq(s, 1, Len(p)) = p

\* s.find(sub) + 1 (1-based; 0 when sub does not occur in s)
Find(s, sub) ==
    LET at == {k \in 1..(Len(s) - Len(sub) + 1) : SubSeq(s, k, k + Len(sub) - 1) = sub}
    IN  IF at = {} THEN 0 ELSE CHOOSE k \in at : \A j \in at : k <= j

\* sub in s
Contains(s, sub) == Find(s, sub) # 0

\* s.split(sep): the parts between the non-overlapping occurrences of sep
RECURSIVE Split(_, _)
Split(s, sep) ==
    LET k == Find(s, sep)
    IN  IF k = 0 THEN <<s>>
        ELSE <<SubSeq(s, 1, k - 1)>> \o Split(SubSeq(s, k + Len(sep), Len(s)), sep)

\* sep.join(parts)
RECURSIVE Join(_, _)
Join(sep, parts) ==
    IF parts = <<>> THEN <<>>
    ELSE IF Len(parts) = 1 THEN parts[1]
    ELSE parts[1] \o sep \o Join(sep, Tail(parts))

\* s.replace(old, new)
Replace(s, old, new) == Join(new, Split(s, old))

Whitespace == {" ", "\n", "\t", "\r"}

\* s.strip()
RECURSIVE LStrip(_)
LStrip(s) == IF s # <<>> /\ Head(s) \in Whitespace THEN LStrip(Tail(s)) ELSE s

RECURSIVE RStrip(_)
RStrip(s) ==
    IF s # <<>> /\ s[Len(s)] \in Whitespace THEN RStrip(SubSeq(s, 1, Len(s) - 1)) ELSE s

Strip(s) == RStrip(LStrip(s))

(***************************************************************************)
(* Configuration (src/main.py, lines 26-33) and literal texts.             *)
(***************************************************************************)
MAX_RETRIES == 3
RETRY_DELAY == 5

\* EXTRACTION_QUESTIONS[i][:50] in create_summary_table
PrefixLen == 50
\* detailed[:200] in ask_question
SummaryLen == 200

NA == <<"N","/","A">>
NoInformationFound ==
    <<"N","o"," ","i","n","f","o","r","m","a","t","i","o","n"," ","f","o","u","n","d",".">>
SearchFailed == <<"S","e","a","r","c","h"," ","f","a","i","l","e","d",":"," ">>
DocumentSearchError ==
    <<"D","o","c","u","m","e","n","t"," ","s","e","a","r","c","h"," ","e","r","r","o","r">>
ProcessingError == <<"P","r","o","c","e","s","s","i","n","g"," ","e","r","r","o","r">>
SummaryDelimiter == <<"S","U","M","M","A","R","Y",":">>
DetailedLabel == <<"D","E","T","A","I","L","E","D"," ","A","N","S","W","E","R",":">>
NoSourcesCited ==
    <<"N","o"," ","s","p","e","c","i","f","i","c"," ","s","o","u","r","c","e","s"," ","c","i","t","e","d">>
CommaSpace == <<","," ">>

\* run statuses of the service
Completed == <<"c","o","m","p","l","e","t","e","d">>
Failed == <<"f","a","i","l","e","d">>
Cancelled == <<"c","a","n","c","e","l","l","e","d">>
Expired == <<"e","x","p","i","r","e","d">>
Queued == <<"q","u","e","u","e","d">>
InProgress == <<"i","n","_","p","r","o","g","r","e","s","s">>
Incomplete == <<"i","n","c","o","m","p","l","e","t","e">>

(***************************************************************************)
(* EXTRACTION_QUESTIONS (src/main.py, lines 54-75), character by character.*)
(***************************************************************************)
Q01 ==
    <<"W","h","a","t"," ","i","s"," ","t","h","e"," ","o","f","f","i","c","i","a","l"," ","n","a","m","e"," ","o","f"," ","t","h","e"," ","h","o","m","e","o","w","n","e","r","s"," ","a","s","s","o","c","i","a","t","i","o","n"," ","a","s"," ","i","n","d","i","c","a","t","e","d"," ","i","n"," ","t","h","e"," ","d","o","c","u","m","e","n","t","s","?"," ","(","I","f"," ","m","u","l","t","i","p","l","e"," ","s","o","u","r","c","e","s"," ","m","e","n","t","i","o","n"," ","t","h","e"," ","n","a","m","e",","," ","u","s","e"," ","t","h","e"," ","i","n","f","o","r","m","a","t","i","o","n"," ","f","r","o","m"," ","t","h","e"," ","h","i","g","h","e","s","t","-","r","a","n","k","e","d"," ","d","o","c","u","m","e","n","t",".",")">>
Q02 ==
    <<"W","h","a","t"," ","d","e","t","a","i","l","s"," ","a","r","e"," ","p","r","o","v","i","d","e","d"," ","a","b","o","u","t"," ","t","h","e"," ","m","o","n","t","h","l","y"," ","d","u","e","s"," ","(","a","m","o","u","n","t","s",","," ","p","a","y","m","e","n","t"," ","s","c","h","e","d","u","l","e",","," ","a","n","d"," ","a","n","y"," ","r","e","l","a","t","e","d"," ","c","o","n","d","i","t","i","o","n","s",")","?"," ","(","P","r","i","o","r","i","t","i","z","e"," ","d","e","t","a","i","l","s"," ","f","r","o","m"," ","t","h","e"," ","h","i","g","h","e","s","t","-","r","a","n","k","i","n","g"," ","f","i","l","e"," ","a","v","a","i","l","a","b","l","e",","," ","a","n","d"," ","n","o","t","e"," ","i","f"," ","t","h","e"," ","d","u","e","s"," ","a","r","e"," ","a","g","g","r","e","g","a","t","e"," ","o","r"," ","p","e","r"," ","p","r","o","p","e","r","t","y",".",")">>
Q03 ==
    <<"W","h","a","t"," ","i","n","f","o","r","m","a","t","i","o","n"," ","i","s"," ","a","v","a","i","l","a","b","l","e"," ","r","e","g","a","r","d","i","n","g"," ","f","e","e"," ","i","n","c","r","e","a","s","e","s"," ","a","n","d"," ","s","p","e","c","i","a","l"," ","a","s","s","e","s","s","m","e","n","t","s",","," ","i","n","c","l","u","d","i","n","g"," ","a","n","y"," ","c","r","i","t","e","r","i","a",","," ","f","r","e","q","u","e","n","c","y",","," ","o","r"," ","c","o","n","d","i","t","i","o","n","s"," ","u","n","d","e","r"," ","w","h","i","c","h"," ","t","h","e","y"," ","o","c","c","u","r","?"," ","(","R","e","f","e","r","e","n","c","e"," ","t","h","e"," ","h","i","g","h","e","s","t","-","p","r","i","o","r","i","t","y"," ","d","o","c","u","m","e","n","t"," ","i","f"," ","m","u","l","t","i","p","l","e"," ","f","i","l","e","s"," ","a","d","d","r","e","s","s"," ","t","h","e","s","e"," ","t","o","p","i","c","s",".",")">>
Q04 ==
    <<"H","o","w"," ","i","s"," ","t","h","e"," ","o","v","e","r","a","l","l"," ","f","i","n","a","n","c","i","a","l"," ","h","e","a","l","t","h"," ","o","f"," ","t","h","e"," ","H","O","A"," ","d","e","s","c","r","i","b","e","d",","," ","i","n","c","l","u","d","i","n","g"," ","a","n","y"," ","m","e","t","r","i","c","s",","," ","r","a","t","i","n","g","s",","," ","o","r"," ","c","o","m","m","e","n","t","a","r","y"," ","o","n"," ","f","i","s","c","a","l"," ","s","t","a","b","i","l","i","t","y","?"," ","(","U","s","e"," ","d","e","t","a","i","l","s"," ","f","r","o","m"," ","t","h","e"," ","d","o","c","u","m","e","n","t"," ","h","i","g","h","e","s","t"," ","i","n"," ","t","h","e"," ","r","a","n","k","i","n","g"," ","o","r","d","e","r"," ","w","h","e","n"," ","a","v","a","i","l","a","b","l","e",".",")">>
Q05 ==
    <<"W","h","a","t"," ","d","e","t","a","i","l","s"," ","a","r","e"," ","o","f","f","e","r","e","d"," ","a","b","o","u","t"," ","t","h","e"," ","r","e","s","e","r","v","e"," ","f","u","n","d"," ","(","s","u","c","h"," ","a","s"," ","i","t","s"," ","b","a","l","a","n","c","e",","," ","p","u","r","p","o","s","e",","," ","a","n","d"," ","a","l","l","o","c","a","t","i","o","n"," ","p","o","l","i","c","i","e","s",")","?"," ","(","I","f"," ","s","e","v","e","r","a","l"," ","d","o","c","u","m","e","n","t","s"," ","p","r","o","v","i","d","e"," ","t","h","i","s"," ","i","n","f","o","r","m","a","t","i","o","n",","," ","s","e","l","e","c","t"," ","d","e","t","a","i","l","s"," ","f","r","o","m"," ","t","h","e"," ","t","o","p","-","r","a","n","k","e","d"," ","s","o","u","r","c","e",".",")">>
Q06 ==
    <<"H","o","w"," ","i","s"," ","t","h","e"," ","H","O","A"," ","b","u","d","g","e","t"," ","a","l","l","o","c","a","t","e","d"," ","a","m","o","n","g"," ","v","a","r","i","o","u","s"," ","e","x","p","e","n","s","e"," ","c","a","t","e","g","o","r","i","e","s",","," ","a","n","d"," ","w","h","a","t"," ","i","n","s","i","g","h","t","s"," ","o","r"," ","b","r","e","a","k","d","o","w","n","s"," ","a","r","e"," ","p","r","o","v","i","d","e","d","?"," ","(","U","s","e"," ","t","h","e"," ","h","i","g","h","e","s","t","-","a","u","t","h","o","r","i","t","y"," ","s","o","u","r","c","e"," ","a","v","a","i","l","a","b","l","e",".",")">>
Q07 ==
    <<"W","h","a","t"," ","d","o","e","s"," ","t","h","e"," ","d","o","c","u","m","e","n","t","a","t","i","o","n"," ","r","e","v","e","a","l"," ","a","b","o","u","t"," ","t","h","e"," ","r","e","p","u","t","a","t","i","o","n"," ","o","f"," ","t","h","e"," ","m","a","n","a","g","e","m","e","n","t"," ","t","e","a","m"," ","(","i","n","c","l","u","d","i","n","g"," ","p","e","r","f","o","r","m","a","n","c","e",","," ","r","e","s","p","o","n","s","i","v","e","n","e","s","s",","," ","o","r"," ","c","o","m","m","u","n","i","t","y"," ","f","e","e","d","b","a","c","k",")","?"," ","(","R","e","f","e","r","e","n","c","e"," ","t","h","e"," ","h","i","g","h","e","s","t","-","p","r","i","o","r","i","t","y"," ","d","o","c","u","m","e","n","t"," ","w","h","e","n"," ","m","u","l","t","i","p","l","e"," ","d","o","c","u","m","e","n","t","s"," ","m","e","n","t","i","o","n"," ","m","a","n","a","g","e","m","e","n","t"," ","r","e","p","u","t","a","t","i","o","n",".",")">>
Q08 ==
    <<"W","h","a","t"," ","i","s","s","u","e","s"," ","o","r"," ","c","o","m","p","l","a","i","n","t","s"," ","h","a","v","e"," ","b","e","e","n"," ","d","o","c","u","m","e","n","t","e","d",","," ","a","n","d"," ","w","h","a","t"," ","i","n","f","o","r","m","a","t","i","o","n"," ","i","s"," ","p","r","o","v","i","d","e","d"," ","o","n"," ","h","o","w"," ","t","h","e","y"," ","w","e","r","e"," ","h","a","n","d","l","e","d"," ","o","r"," ","r","e","s","o","l","v","e","d","?"," ","(","I","f"," ","d","e","t","a","i","l","s"," ","c","o","m","e"," ","f","r","o","m"," ","v","a","r","i","o","u","s"," ","s","o","u","r","c","e","s",","," ","f","o","l","l","o","w"," ","t","h","e"," ","r","a","n","k","i","n","g"," ","o","r","d","e","r"," ","t","o"," ","d","e","t","e","r","m","i","n","e"," ","t","h","e"," ","a","u","t","h","o","r","i","t","a","t","i","v","e"," ","s","o","u","r","c","e",".",")">>
Q09 ==
    <<"W","h","a","t"," ","s","p","e","c","i","f","i","c"," ","r","u","l","e","s"," ","a","n","d"," ","r","e","s","t","r","i","c","t","i","o","n","s"," ","g","o","v","e","r","n"," ","t","h","e"," ","c","o","m","m","u","n","i","t","y",","," ","a","n","d"," ","h","o","w"," ","a","r","e"," ","t","h","e","s","e"," ","p","o","l","i","c","i","e","s"," ","s","t","r","u","c","t","u","r","e","d"," ","o","r"," ","e","n","f","o","r","c","e","d","?"," ","(","U","s","e"," ","t","h","e"," ","h","i","g","h","e","s","t","-","r","a","n","k","e","d"," ","d","o","c","u","m","e","n","t"," ","a","d","d","r","e","s","s","i","n","g"," ","r","u","l","e","s"," ","a","n","d"," ","r","e","s","t","r","i","c","t","i","o","n","s",".",")">>
Q10 ==
    <<"W","h","a","t"," ","p","o","l","i","c","i","e","s"," ","a","r","e"," ","i","n"," ","p","l","a","c","e"," ","r","e","g","a","r","d","i","n","g"," ","p","e","t","s"," ","(","e",".","g",".",","," ","p","e","r","m","i","t","t","e","d"," ","t","y","p","e","s",","," ","r","e","s","t","r","i","c","t","i","o","n","s",","," ","a","p","p","r","o","v","a","l"," ","p","r","o","c","e","s","s","e","s",","," ","o","r"," ","l","i","m","i","t","s",")","?"," ","(","I","f"," ","m","u","l","t","i","p","l","e"," ","d","o","c","u","m","e","n","t","s"," ","i","n","c","l","u","d","e"," ","p","e","t"," ","p","o","l","i","c","i","e","s",","," ","p","r","i","o","r","i","t","i","z","e"," ","a","c","c","o","r","d","i","n","g"," ","t","o"," ","t","h","e"," ","g","i","v","e","n"," ","r","a","n","k","i","n","g"," ","o","r","d","e","r",".",")">>
Q11 ==
    <<"W","h","a","t"," ","i","n","f","o","r","m","a","t","i","o","n"," ","i","s"," ","p","r","o","v","i","d","e","d"," ","a","b","o","u","t"," ","s","h","o","r","t","-","t","e","r","m"," ","r","e","n","t","a","l"," ","p","o","l","i","c","i","e","s",","," ","i","n","c","l","u","d","i","n","g"," ","a","n","y"," ","l","i","m","i","t","a","t","i","o","n","s"," ","o","r"," ","g","u","i","d","e","l","i","n","e","s","?"," ","(","R","e","f","e","r"," ","t","o"," ","t","h","e"," ","h","i","g","h","e","s","t","-","a","u","t","h","o","r","i","t","y"," ","d","o","c","u","m","e","n","t"," ","i","f"," ","s","e","v","e","r","a","l"," ","f","i","l","e","s"," ","d","i","s","c","u","s","s"," ","t","h","i","s"," ","t","o","p","i","c",".",")">>
Q12 ==
    <<"W","h","a","t"," ","d","e","t","a","i","l","s"," ","a","r","e"," ","i","n","c","l","u","d","e","d"," ","r","e","g","a","r","d","i","n","g"," ","c","a","p","i","t","a","l"," ","i","m","p","r","o","v","e","m","e","n","t","s"," ","(","s","u","c","h"," ","a","s"," ","p","l","a","n","n","e","d"," ","p","r","o","j","e","c","t","s",","," ","r","e","c","e","n","t"," ","u","p","g","r","a","d","e","s",","," ","o","r"," ","f","u","n","d","i","n","g"," ","f","o","r"," ","i","m","p","r","o","v","e","m","e","n","t","s",")","?"," ","(","P","r","i","o","r","i","t","i","z","e"," ","i","n","f","o","r","m","a","t","i","o","n"," ","f","r","o","m"," ","t","h","e"," ","d","o","c","u","m","e","n","t"," ","h","i","g","h","e","s","t"," ","i","n"," ","t","h","e"," ","p","r","o","v","i","d","e","d"," ","l","i","s","t",".",")">>
Q13 ==
    <<"H","o","w"," ","a","r","e"," ","t","h","e"," ","c","o","m","m","u","n","i","t","y"," ","a","m","e","n","i","t","i","e","s"," ","a","n","d"," ","o","v","e","r","a","l","l"," ","p","r","o","p","e","r","t","y"," ","c","o","n","d","i","t","i","o","n"," ","d","e","s","c","r","i","b","e","d"," ","i","n"," ","t","h","e"," ","d","o","c","u","m","e","n","t","s","?"," ","(","U","s","e"," ","t","h","e"," ","d","e","t","a","i","l","s"," ","f","r","o","m"," ","t","h","e"," ","t","o","p","-","r","a","n","k","e","d"," ","d","o","c","u","m","e","n","t"," ","a","v","a","i","l","a","b","l","e"," ","o","n"," ","a","m","e","n","i","t","i","e","s"," ","a","n","d"," ","c","o","n","d","i","t","i","o","n","s",".",")">>
Q14 ==
    <<"W","h","a","t"," ","i","n","f","o","r","m","a","t","i","o","n"," ","i","s"," ","a","v","a","i","l","a","b","l","e"," ","o","n"," ","t","h","e"," ","H","O","A","U+00E2","U+20AC","U+2122","s"," ","g","o","v","e","r","n","a","n","c","e"," ","p","r","a","c","t","i","c","e","s"," ","a","n","d"," ","t","r","a","n","s","p","a","r","e","n","c","y",","," ","i","n","c","l","u","d","i","n","g"," ","d","e","c","i","s","i","o","n","-","m","a","k","i","n","g"," ","p","r","o","c","e","s","s","e","s"," ","a","n","d"," ","a","c","c","e","s","s"," ","t","o"," ","r","e","c","o","r","d","s","?"," ","(","I","f"," ","m","u","l","t","i","p","l","e"," ","d","o","c","u","m","e","n","t","s"," ","o","f","f","e","r"," ","i","n","s","i","g","h","t","s",","," ","c","h","o","o","s","e"," ","t","h","e"," ","d","e","t","a","i","l","s"," ","f","r","o","m"," ","t","h","e"," ","h","i","g","h","e","s","t","-","a","u","t","h","o","r","i","t","y"," ","f","i","l","e",".",")">>
Q15 ==
    <<"W","h","a","t"," ","e","n","f","o","r","c","e","m","e","n","t"," ","m","e","a","s","u","r","e","s"," ","a","n","d"," ","f","i","n","e"," ","s","t","r","u","c","t","u","r","e","s"," ","a","r","e"," ","d","o","c","u","m","e","n","t","e","d"," ","f","o","r"," ","p","o","l","i","c","y"," ","v","i","o","l","a","t","i","o","n","s",","," ","a","n","d"," ","w","h","a","t"," ","a","r","e"," ","t","h","e"," ","a","s","s","o","c","i","a","t","e","d"," ","p","r","o","c","e","d","u","r","e","s","?"," ","(","W","h","e","n"," ","c","o","n","f","l","i","c","t","i","n","g"," ","i","n","f","o","r","m","a","t","i","o","n"," ","e","x","i","s","t","s",","," ","r","e","f","e","r"," ","t","o"," ","t","h","e"," ","h","i","g","h","e","s","t","-","p","r","i","o","r","i","t","y"," ","s","o","u","r","c","e"," ","s","u","c","h"," ","a","s"," ","F","i","n","e"," ","S","c","h","e","d","u","l","e"," ","o","r"," ","A","s","s","e","s","s","m","e","n","t"," ","E","n","f","o","r","c","e","m","e","n","t",".",")">>
Q16 ==
    <<"H","o","w"," ","d","o","e","s"," ","t","h","e"," ","H","O","A"," ","a","d","d","r","e","s","s"," ","r","o","u","t","i","n","e"," ","m","a","i","n","t","e","n","a","n","c","e"," ","a","n","d"," ","e","m","e","r","g","e","n","c","y"," ","s","i","t","u","a","t","i","o","n","s",","," ","i","n","c","l","u","d","i","n","g"," ","a","n","y"," ","p","r","o","t","o","c","o","l","s"," ","o","r"," ","r","e","s","p","o","n","s","e"," ","p","l","a","n","s","?"," ","(","U","s","e"," ","t","h","e"," ","h","i","g","h","e","s","t","-","r","a","n","k","e","d"," ","d","o","c","u","m","e","n","t"," ","t","h","a","t"," ","d","i","s","c","u","s","s","e","s"," ","m","a","i","n","t","e","n","a","n","c","e"," ","a","n","d"," ","e","m","e","r","g","e","n","c","i","e","s",".",")">>
Q17 ==
    <<"W","h","a","t"," ","p","r","o","c","e","s","s","e","s"," ","a","r","e"," ","o","u","t","l","i","n","e","d"," ","f","o","r"," ","r","e","s","o","l","v","i","n","g"," ","d","i","s","p","u","t","e","s"," ","a","m","o","n","g"," ","r","e","s","i","d","e","n","t","s"," ","o","r"," ","b","e","t","w","e","e","n"," ","r","e","s","i","d","e","n","t","s"," ","a","n","d"," ","m","a","n","a","g","e","m","e","n","t","?"," ","(","I","f"," ","d","e","t","a","i","l","s"," ","a","r","e"," ","p","r","o","v","i","d","e","d"," ","i","n"," ","s","e","v","e","r","a","l"," ","d","o","c","u","m","e","n","t","s",","," ","p","r","i","o","r","i","t","i","z","e"," ","u","s","i","n","g"," ","t","h","e"," ","r","a","n","k","i","n","g"," ","o","r","d","e","r",".",")">>
Q18 ==
    <<"W","h","a","t"," ","d","e","t","a","i","l","s"," ","a","r","e"," ","p","r","o","v","i","d","e","d"," ","o","n"," ","i","n","s","u","r","a","n","c","e"," ","p","o","l","i","c","i","e","s"," ","a","n","d"," ","s","e","r","v","i","c","e"," ","c","o","v","e","r","a","g","e",","," ","i","n","c","l","u","d","i","n","g"," ","s","c","o","p","e",","," ","l","i","m","i","t","a","t","i","o","n","s",","," ","a","n","d"," ","a","n","y"," ","n","o","t","a","b","l","e"," ","e","x","c","l","u","s","i","o","n","s","?"," ","(","U","s","e"," ","t","h","e"," ","h","i","g","h","e","s","t","-","a","u","t","h","o","r","i","t","y"," ","d","o","c","u","m","e","n","t"," ","a","m","o","n","g"," ","t","h","o","s","e"," ","a","d","d","r","e","s","s","i","n","g"," ","i","n","s","u","r","a","n","c","e",","," ","e",".","g",".",","," ","I","n","s","u","r","a","n","c","e"," ","&"," ","E","v","i","d","e","n","c","e"," ","o","f"," ","I","n","s","u","r","a","n","c","e"," ","(","C","O","I",")"," ","o","r"," ","F","l","o","o","d"," ","&"," ","G","e","n","e","r","a","l"," ","L","i","a","b","i","l","i","t","y"," ","I","n","s","u","r","a","n","c","e",".",")">>
Q19 ==
    <<"W","h","a","t"," ","l","e","g","a","l"," ","o","r"," ","r","e","g","u","l","a","t","o","r","y"," ","i","s","s","u","e","s"," ","h","a","v","e"," ","b","e","e","n"," ","i","d","e","n","t","i","f","i","e","d",","," ","a","n","d"," ","h","o","w"," ","d","o","e","s"," ","t","h","e"," ","H","O","A"," ","a","d","d","r","e","s","s"," ","o","r"," ","m","i","t","i","g","a","t","e"," ","t","h","e","s","e"," ","c","h","a","l","l","e","n","g","e","s","?"," ","(","P","r","i","o","r","i","t","i","z","e"," ","d","e","t","a","i","l","s"," ","f","r","o","m"," ","t","h","e"," ","h","i","g","h","e","s","t","-","r","a","n","k","e","d"," ","d","o","c","u","m","e","n","t"," ","t","h","a","t"," ","d","i","s","c","u","s","s","e","s"," ","l","e","g","a","l"," ","o","r"," ","r","e","g","u","l","a","t","o","r","y"," ","m","a","t","t","e","r","s",".",")">>
Q20 ==
    <<"W","h","a","t"," ","e","v","i","d","e","n","c","e"," ","o","r"," ","i","n","f","o","r","m","a","t","i","o","n"," ","i","s"," ","p","r","o","v","i","d","e","d"," ","a","b","o","u","t"," ","r","e","s","i","d","e","n","t"," ","e","n","g","a","g","e","m","e","n","t",","," ","i","n","v","o","l","v","e","m","e","n","t",","," ","o","r"," ","f","e","e","d","b","a","c","k"," ","w","i","t","h","i","n"," ","t","h","e"," ","c","o","m","m","u","n","i","t","y","?"," ","(","I","f"," ","m","u","l","t","i","p","l","e"," ","s","o","u","r","c","e","s"," ","o","f","f","e","r"," ","i","n","f","o","r","m","a","t","i","o","n"," ","o","n"," ","r","e","s","i","d","e","n","t"," ","e","n","g","a","g","e","m","e","n","t",","," ","u","s","e"," ","t","h","e"," ","d","e","t","a","i","l","s"," ","f","r","o","m"," ","t","h","e"," ","h","i","g","h","e","s","t","-","r","a","n","k","e","d"," ","d","o","c","u","m","e","n","t",".",")">>

EXTRACTION_QUESTIONS ==
    <<Q01, Q02, Q03, Q04, Q05, Q06, Q07, Q08, Q09, Q10,
      Q11, Q12, Q13, Q14, Q15, Q16, Q17, Q18, Q19, Q20>>

\* categories of create_summary_table
categories ==
    <<"HOA Name",
      "Monthly Dues", "Fee Increases", "Financial Health", "Reserve Fund",
      "HOA Budget Allocation", "Management Reputation", "Documented Issues",
      "Community Rules", "Pet Policies",
      "Short-Term Rentals", "Capital Improvements", "Community Amenities",
      "Governance Practices", "Enforcement Measures",
      "Routine Maintenance", "Dispute Resolution", "Insurance Policies",
      "Legal Issues", "Resident Engagement">>

(***************************************************************************)
(* create_summary_table (src/main.py, lines 410-433).                      *)
(***************************************************************************)
\* variant: the record is matched by equality with the whole question
MatchesExactly(r, i) == r.question = EXTRACTION_QUESTIONS[i]

\* variant: only the first five characters of the question are compared
MatchesFiveCharacters(r, i) == StartsWith(r.question, Prefix(EXTRACTION_QUESTIONS[i], 5))

\* r["question"].startswith(EXTRACTION_QUESTIONS[i][:50])
Matches(r, i) == StartsWith(r.question, Prefix(EXTRACTION_QUESTIONS[i], PrefixLen))

\* variant: without a matching record the first record is taken
FirstMatchOrFirst(responses, i) ==
    LET hits == {k \in 1..Len(responses) : Matches(responses[k], i)}
    IN  IF hits = {} THEN (IF responses = <<>> THEN 0 ELSE 1)
        ELSE CHOOSE k \in hits : \A j \in hits : k <= j

\* next((r for r in responses if ...), None): the index of the first matching
\* record, 0 for None
FirstMatch(responses, i) ==
    LET hits == {k \in 1..Len(responses) : Matches(responses[k], i)}
    IN  IF hits = {} THEN 0 ELSE CHOOSE k \in hits : \A j \in hits : k <= j

\* variant: the finding is taken from the answer field
SummaryEntryAnswer(responses, i) ==
    LET hits == {k \in 1..Len(responses) : Matches(responses[k], i)}
        k == IF hits = {} THEN 0 ELSE CHOOSE k \in hits : \A j \in hits : k <= j
    IN  IF k # 0
        THEN [Category |-> categories[i],
              Findings |-> responses[k].answer,
              Source   |-> responses[k].source_citations]
        ELSE [Category |-> categories[i],
              Findings |-> NoInformationFound,
              Source   |-> NA]

\* the entry appended for category i
SummaryEntry(responses, i) ==
    LET k == FirstMatch(responses, i)
    IN  IF k # 0
        THEN [Category |-> categories[i],
              Findings |-> responses[k].summary,
              Source   |-> responses[k].source_citations]
        ELSE [Category |-> categories[i],
              Findings |-> NoInformationFound,
              Source   |-> NA]

\* variant: a category without a matching record gets no entry
create_summary_table_matched(responses) ==
    SelectSeq([i \in 1..Len(categories) |-> SummaryEntry(responses, i)],
              LAMBDA entry : entry.Findings # NoInformationFound)

create_summary_table(responses) ==
    [i \in 1..Len(categories) |-> SummaryEntry(responses, i)]

(***************************************************************************)
(* Bounds of the model.                                                    *)
(***************************************************************************)
\* longest list of questions handed to ask_questions
MaxQuestions == 2
\* status retrievals that report a non-terminal status, per run
MaxPolls == 2
\* longest list of answer records handed to create_summary_table directly
MaxResponses == 3
\* longest list of documents handed to upload_files_to_vector_store
MaxDocs == 3
\* batch status retrievals that report a non-terminal status
MaxBatchPolls == 2
\* annotations of the first text block of an assistant message
MaxAnnotations == 2
\* assistants named ASSISTANT_NAME that exist before the first call
MaxExisting == 2
\* lifecycle calls made one after another
MaxCalls == 4

(***************************************************************************)
(* The hosted service as ask_question sees it.                             *)
(***************************************************************************)
SearchPrompt ==
    <<"S","e","a","r","c","h"," ","t","h","e"," ","d","o","c","u","m","e","n","t","s"," ","a","n","d"," ","a","n","s","w","e","r",":"," ">>

\* statuses runs.retrieve can report
TerminalStatuses == {Completed, Failed, Cancelled, Expired}
OtherStatuses == {Queued, InProgress, Incomplete}
Statuses == TerminalStatuses \cup OtherStatuses

\* str(e) of the exceptions a service call can raise; the empty text is
\* str(Exception())
ConnectionError ==
    <<"C","o","n","n","e","c","t","i","o","n"," ","e","r","r","o","r",".">>
ExcMessages == {<<>>, ConnectionError}
\* str(IndexError) of messages.data[0].content[0] on an empty list
IndexErrorText ==
    <<"l","i","s","t"," ","i","n","d","e","x"," ","o","u","t"," ","o","f"," ","r","a","n","g","e">>

\* files.retrieve(file_id).filename
FileName(fid) ==
    CASE fid = "file-1" -> <<"h","o","a","_","a",".","p","d","f">>
      [] fid = "file-2" -> <<"h","o","a","_","b",".","t","x","t">>
      [] OTHER          -> <<"h","o","a","_","c",".","m","d">>

TextBlock(value, annotations) ==
    [type |-> "text", value |-> value, annotations |-> annotations]
FileCitation(fid) == [type |-> "file_citation", file_id |-> fid]
FilePath(fid) == [type |-> "file_path", file_id |-> fid]

\* response texts of the most recent assistant message
RespDelimited ==
    DetailedLabel \o <<"\n","T","h","e"," ","H","O","A",".","\n","\n">>
        \o SummaryDelimiter \o <<"\n","H","O","A","\n">>
RespPlain == <<" ","N","o"," ","d","a","t","a","."," ">>

\* messages.list(thread_id, order="desc", limit=1).data[0]
MsgDelimited == [content |-> <<TextBlock(RespDelimited, <<>>)>>]
MsgCited ==
    [content |-> <<TextBlock(RespPlain,
                     <<FileCitation("file-1"), FilePath("file-3"),
                       FileCitation("file-2"), FileCitation("file-1")>>)>>]
MsgEmpty == [content |-> <<>>]
MessagePool == {MsgDelimited, MsgCited, MsgEmpty}

(***************************************************************************)
(* ask_question (src/main.py, lines 302-394): record construction.         *)
(***************************************************************************)
\* variant: every annotation is taken, whatever its type
SelectCitationsAny(annotations) == annotations

\* the file_citation annotations of the content blocks that have text, in order
RECURSIVE SelectCitations(_)
SelectCitations(annotations) ==
    IF annotations = <<>> THEN <<>>
    ELSE (IF Head(annotations).type = "file_citation"
          THEN <<Head(annotations)>> ELSE <<>>) \o SelectCitations(Tail(annotations))

RECURSIVE Citations(_)
Citations(content) ==
    IF content = <<>> THEN <<>>
    ELSE (IF Head(content).type = "text"
          THEN SelectCitations(Head(content).annotations) ELSE <<>>)
         \o Citations(Tail(content))

\* set(sources)
SourceSet(cites) == {FileName(cites[k].file_id) : k \in 1..Len(cites)}

\* the orders in which ", ".join may iterate over a set
Orderings(S) ==
    {s \in [1..Cardinality(S) -> S] : \A x \in S : \E k \in 1..Cardinality(S) : s[k] = x}

\* parts = response.split("SUMMARY:")
\* detailed = parts[0].replace("DETAILED ANSWER:", "").strip()
Detailed(response) ==
    Strip(Replace(Split(response, SummaryDelimiter)[1], DetailedLabel, <<>>))

\* summary = parts[1].strip() if len(parts) > 1 else detailed[:200]
Summary(response) ==
    LET parts == Split(response, SummaryDelimiter)
    IN  IF Len(parts) > 1 THEN Strip(parts[2]) ELSE Prefix(Detailed(response), SummaryLen)

\* the record returned on status completed; order is the iteration order of
\* set(sources)
CompletedRecord(question, message, order) ==
    LET response == message.content[1].value
        cites == Citations(message.content)
    IN  [question         |-> question,
         answer           |-> Detailed(response),
         summary          |-> Summary(response),
         source           |-> IF cites # <<>> THEN Join(CommaSpace, order)
                              ELSE NoSourcesCited,
         source_citations |-> cites]

\* the record returned on status failed, cancelled or expired
FailureRecord(question, status) ==
    [question         |-> question,
     answer           |-> SearchFailed \o status,
     summary          |-> DocumentSearchError,
     source           |-> NA,
     source_citations |-> <<>>]

\* the record returned by the except clause; e is str(e)
ExceptionRecord(question, e) ==
    [question         |-> question,
     answer           |-> e,
     summary          |-> ProcessingError,
     source           |-> NA,
     source_citations |-> <<>>]

\* variant: in_progress is taken for completed
IsCompletedEarly(status) == status \in {Completed, InProgress}

\* run_status.status == 'completed'
IsCompleted(status) == status = Completed

\* variant: expired is not recognised as a failure status
IsFailureNoExpired(status) == status \in {Failed, Cancelled}

\* variant: cancelled is not recognised as a failure status
IsFailureNoCancelled(status) == status \in {Failed, Expired}

\* run_status.status in ['failed', 'cancelled', 'expired']
IsFailure(status) == status \in {Failed, Cancelled, Expired}

(***************************************************************************)
(* State.                                                                  *)
(***************************************************************************)
VARIABLES
    \* ask_questions / ask_question
    questions,          \* the list handed to ask_questions
    replies,            \* service side: the messages messages.list may return
    idx,                \* enumerate(questions, 1): the question being asked
    pc,                 \* position in ask_questions / ask_question
    results,            \* the records appended so far
    threads,            \* service side: the threads created, in creation order
    thread,             \* thread.id of the current call (0: none yet)
    run_status,         \* run_status.status of the last retrieval (<<>>: none)
    polls,              \* retrievals of the current run that slept afterwards
    log,                \* per question: entries of the try block, the status that
                        \* ended the polling (<<>>: none did), the exit path
    summary_table,      \* the result of create_summary_table
    \* upload_files_to_vector_store
    files_with_content, \* the documents handed to the function (their paths)
    fidx,               \* position in the loop over files_with_content
    upc,                \* position in upload_files_to_vector_store
    temp_file_path,     \* the local variable (0: not bound in locals())
    disk,               \* temporary files existing on disk
    tmp_count,          \* temporary files created so far (names are fresh)
    uploaded_file_ids,  \* list of uploaded file ids
    fid_to_fpath,       \* the mapping under construction: set of <<id, path>>
    batch,              \* the file ids of the submitted batch (<<>>: none)
    batch_status,       \* file_batch_attachment.status of the last retrieval
    bpolls,             \* batch retrievals that slept afterwards
    doc_log,            \* per document: the step that failed ("ok": none)
    \* main and the lifecycle of the assistant and the vector store
    mpc,                \* position in main ("idle": main is not running)
    assistants,         \* service side: the assistants, indexed by id
    vector_stores,      \* service side: the vector stores, indexed by id
    assistant,          \* assistant.id held by the caller (0: none)
    vector_store,       \* vector_store.id held by the caller (0: none)
    prev_assistant,     \* id returned by the previous successful call (0: none)
    prev_store,         \* id returned by the previous successful call (0: none)
    last,               \* the last lifecycle call: function, outcome, state before
    verified,           \* result of verify_assistant_setup ("none": not called)
    ncalls,             \* lifecycle calls made so far
    exit_code,          \* 1 once exit(1) was called
    notices,            \* the notices main printed
    written             \* the output files main wrote

askVars == <<questions, replies, idx, pc, results, threads, thread, run_status, polls, log,
             summary_table>>
upVars == <<files_with_content, fidx, upc, temp_file_path, disk, tmp_count,
            uploaded_file_ids, fid_to_fpath, batch, batch_status, bpolls, doc_log>>
setupVars == <<mpc, assistants, vector_stores, assistant, vector_store, prev_assistant,
               prev_store, last, verified, ncalls, exit_code, notices, written>>
vars == <<askVars, upVars, setupVars>>

(***************************************************************************)
(* ask_questions (src/main.py, lines 396-406) and the steps of             *)
(* ask_question (lines 302-394).                                           *)
(***************************************************************************)
\* return of ask_question into ask_questions: results.append(result), sleep
Return(rec, path, status) ==
    /\ results' = Append(results, rec)
    /\ log' = [log EXCEPT ![idx] = [attempts |-> @.attempts, path |-> path,
                                    status |-> status]]
    /\ pc' = "start"
    /\ thread' = 0
    /\ polls' = 0
    /\ run_status' = <<>>

\* variant: the exception leaves ask_question and ends the batch
RaisePropagates(e) ==
    /\ pc' = "returned"
    /\ UNCHANGED <<questions, replies, idx, results, threads, thread, run_status, polls, log,
                   summary_table>>

\* except Exception as e: return the 'Processing error' record
Raise(e) ==
    /\ Return(ExceptionRecord(questions[idx], e), "exception", log[idx].status)
    /\ UNCHANGED <<questions, replies, idx, threads, summary_table>>

\* for idx, question in enumerate(questions, 1): enter ask_question
AskNext ==
    /\ pc = "start"
    /\ UNCHANGED <<upVars, setupVars>>
    /\ idx < Len(questions)
    /\ idx' = idx + 1
    /\ log' = Append(log, [attempts |-> 1, path |-> "pending", status |-> <<>>])
    /\ pc' = "thread"
    /\ UNCHANGED <<questions, replies, results, threads, thread, run_status, polls,
                   summary_table>>

\* variant: the thread of the previous question is used again when there is one
CreateThreadReuse ==
    /\ pc = "thread"
    /\ UNCHANGED <<upVars, setupVars>>
    /\ \/ /\ threads' = IF threads = <<>>
                        THEN <<[owner |-> idx, messages |-> <<>>, runs |-> 0]>>
                        ELSE threads
          /\ thread' = Len(threads')
          /\ pc' = "message"
          /\ UNCHANGED <<questions, replies, idx, results, run_status, polls, log,
                         summary_table>>
       \/ \E e \in ExcMessages : Raise(e)

\* thread = client.beta.threads.create()
CreateThread ==
    /\ pc = "thread"
    /\ UNCHANGED <<upVars, setupVars>>
    /\ \/ /\ threads' = Append(threads, [owner |-> idx, messages |-> <<>>, runs |-> 0])
          /\ thread' = Len(threads) + 1
          /\ pc' = "message"
          /\ UNCHANGED <<questions, replies, idx, results, run_status, polls, log,
                         summary_table>>
       \/ \E e \in ExcMessages : Raise(e)

\* client.beta.threads.messages.create(thread_id, role="user", content=...)
PostMessage ==
    /\ pc = "message"
    /\ UNCHANGED <<upVars, setupVars>>
    /\ \/ /\ threads' = [threads EXCEPT ![thread].messages =
                            Append(@, [role |-> "user",
                                       content |-> SearchPrompt \o questions[idx]])]
          /\ pc' = "run"
          /\ UNCHANGED <<questions, replies, idx, results, thread, run_status, polls, log,
                         summary_table>>
       \/ \E e \in ExcMessages : Raise(e)

\* run = client.beta.threads.runs.create(thread_id, assistant_id, instructions)
CreateRun ==
    /\ pc = "run"
    /\ UNCHANGED <<upVars, setupVars>>
    /\ \/ /\ threads' = [threads EXCEPT ![thread].runs = @ + 1]
          /\ pc' = "poll"
          /\ UNCHANGED <<questions, replies, idx, results, thread, run_status, polls, log,
                         summary_table>>
       \/ \E e \in ExcMessages : Raise(e)

\* one turn of the while True loop: runs.retrieve and the two status tests
RetrieveRun ==
    /\ pc = "poll"
    /\ UNCHANGED <<upVars, setupVars>>
    /\ \/ \E st \in Statuses :
            /\ IsCompleted(st)
            /\ run_status' = st
            /\ log' = [log EXCEPT ![idx].status = st]
            /\ pc' = "messages"
            /\ UNCHANGED <<questions, replies, idx, results, threads, thread, polls,
                           summary_table>>
       \/ \E st \in Statuses :
            /\ ~IsCompleted(st)
            /\ IsFailure(st)
            /\ Return(FailureRecord(questions[idx], st), "inband", st)
            /\ UNCHANGED <<questions, replies, idx, threads, summary_table>>
       \/ \E st \in Statuses :
            /\ ~IsCompleted(st)
            /\ ~IsFailure(st)
            /\ polls < MaxPolls
            /\ run_status' = st
            /\ polls' = polls + 1
            /\ UNCHANGED <<questions, replies, idx, pc, results, threads, thread, log,
                           summary_table>>
       \/ \E e \in ExcMessages : Raise(e)

\* the while True loop keeps no count: after MaxPolls retrievals a status that
\* is neither completed nor a failure is still followed by time.sleep(1) and
\* another retrieval (polls stays at MaxPolls)
RetrieveRunAgain ==
    /\ pc = "poll"
    /\ UNCHANGED <<upVars, setupVars>>
    /\ polls = MaxPolls
    /\ \E st \in Statuses :
          /\ ~IsCompleted(st)
          /\ ~IsFailure(st)
          /\ run_status' = st
    /\ UNCHANGED <<questions, replies, idx, pc, results, threads, thread, polls, log,
                   summary_table>>

\* the completed branch: messages.list, the citation loop with files.retrieve,
\* the parse of the response and the return of the record
ReadMessages ==
    /\ pc = "messages"
    /\ UNCHANGED <<upVars, setupVars>>
    /\ \/ \E e \in ExcMessages : Raise(e)
       \/ \E m \in replies :
            /\ m.content = <<>>
            /\ Raise(IndexErrorText)
       \/ \E m \in replies :
            /\ m.content # <<>>
            /\ Citations(m.content) # <<>>
            /\ \E e \in ExcMessages : Raise(e)
       \/ \E m \in replies :
            /\ m.content # <<>>
            /\ \E order \in Orderings(SourceSet(Citations(m.content))) :
                 Return(CompletedRecord(questions[idx], m, order), "completed",
                        log[idx].status)
            /\ UNCHANGED <<questions, replies, idx, threads, summary_table>>

\* return results
AskDone ==
    /\ pc = "start"
    /\ UNCHANGED <<upVars, setupVars>>
    /\ idx = Len(questions)
    /\ pc' = "returned"
    /\ UNCHANGED <<questions, replies, idx, results, threads, thread, run_status, polls, log,
                   summary_table>>

\* summary_table = create_summary_table(fid_to_fpath, responses) in main
CreateSummaryTable ==
    /\ pc = "returned"
    /\ UNCHANGED <<upVars, setupVars>>
    /\ summary_table' = create_summary_table(results)
    /\ pc' = "summarised"
    /\ UNCHANGED <<questions, replies, idx, results, threads, thread, run_status, polls, log>>

(***************************************************************************)
(* upload_files_to_vector_store (src/main.py, lines 233-283).              *)
(***************************************************************************)
\* statuses file_batches.retrieve can report
BatchOtherStatuses == {"in_progress", "cancelled"}

\* the except clause of the loop body: the error is printed, then finally runs
UploadError(step) ==
    /\ doc_log' = [doc_log EXCEPT ![fidx] = step]
    /\ upc' = "finally"

\* for file_data in files_with_content: tempfile.NamedTemporaryFile(delete=False)
CreateTemp ==
    /\ upc = "loop"
    /\ UNCHANGED <<askVars, setupVars>>
    /\ fidx < Len(files_with_content)
    /\ fidx' = fidx + 1
    /\ \/ /\ tmp_count' = tmp_count + 1
          /\ disk' = disk \cup {tmp_count + 1}
          /\ doc_log' = Append(doc_log, "ok")
          /\ upc' = "write"
       \/ /\ doc_log' = Append(doc_log, "create")
          /\ upc' = "finally"
          /\ UNCHANGED <<tmp_count, disk>>
    /\ UNCHANGED <<files_with_content, temp_file_path, uploaded_file_ids,
                   fid_to_fpath, batch, batch_status, bpolls>>

\* temp_file.write(content.encode('utf-8')); temp_file_path = temp_file.name
\* (the with block closes the file on both exits; delete=False keeps it)
WriteTemp ==
    /\ upc = "write"
    /\ UNCHANGED <<askVars, setupVars>>
    /\ \/ /\ temp_file_path' = tmp_count
          /\ upc' = "upload"
          /\ UNCHANGED doc_log
       \/ /\ UploadError("write")
          /\ UNCHANGED temp_file_path
    /\ UNCHANGED <<files_with_content, fidx, disk, tmp_count, uploaded_file_ids,
                   fid_to_fpath, batch, batch_status, bpolls>>

\* with open(temp_file_path, "rb"): uploaded_file = client.files.create(...)
UploadFile ==
    /\ upc = "upload"
    /\ UNCHANGED <<askVars, setupVars>>
    /\ \/ /\ uploaded_file_ids' = Append(uploaded_file_ids, fidx)
          /\ fid_to_fpath' = fid_to_fpath \cup {<<fidx, files_with_content[fidx]>>}
          /\ upc' = "finally"
          /\ UNCHANGED doc_log
       \/ /\ UploadError("upload")
          /\ UNCHANGED <<uploaded_file_ids, fid_to_fpath>>
    /\ UNCHANGED <<files_with_content, fidx, temp_file_path, disk, tmp_count, batch,
                   batch_status, bpolls>>

\* finally: if 'temp_file_path' in locals(): os.remove(temp_file_path)
Cleanup ==
    /\ upc = "finally"
    /\ UNCHANGED <<askVars, setupVars>>
    /\ \/ /\ temp_file_path = 0
          /\ upc' = "loop"
          /\ UNCHANGED disk
       \/ /\ temp_file_path # 0
          /\ temp_file_path \in disk
          /\ disk' = disk \ {temp_file_path}
          /\ upc' = "loop"
       \/ /\ temp_file_path # 0
          /\ temp_file_path \notin disk
          \* os.remove raises FileNotFoundError inside finally: it leaves the loop
          /\ upc' = "raised_in_loop"
          /\ UNCHANGED disk
    /\ UNCHANGED <<files_with_content, fidx, temp_file_path, tmp_count,
                   uploaded_file_ids, fid_to_fpath, batch, batch_status, bpolls,
                   doc_log>>

\* if uploaded_file_ids: file_batches.create(...) else: exit(1)
SubmitBatch ==
    /\ upc = "loop"
    /\ UNCHANGED <<askVars, setupVars>>
    /\ fidx = Len(files_with_content)
    /\ \/ /\ uploaded_file_ids # <<>>
          /\ batch' = uploaded_file_ids
          /\ upc' = "poll"
       \/ /\ uploaded_file_ids # <<>>
          /\ upc' = "raised"
          /\ UNCHANGED batch
       \/ /\ uploaded_file_ids = <<>>
          /\ upc' = "exit1"
          /\ UNCHANGED batch
    /\ UNCHANGED <<files_with_content, fidx, temp_file_path, disk, tmp_count,
                   uploaded_file_ids, fid_to_fpath, batch_status, bpolls, doc_log>>

\* variant: the loop is left on the first status that is not 'failed'
PollBatchReturnsEarly ==
    /\ upc = "poll"
    /\ UNCHANGED <<askVars, setupVars>>
    /\ \/ /\ batch_status' \in {"completed"} \cup BatchOtherStatuses
          /\ upc' = "returned"
          /\ UNCHANGED bpolls
       \/ /\ batch_status' = "failed"
          /\ upc' = "exit1"
          /\ UNCHANGED bpolls
       \/ /\ upc' = "raised"
          /\ UNCHANGED <<batch_status, bpolls>>
    /\ UNCHANGED <<files_with_content, fidx, temp_file_path, disk, tmp_count,
                   uploaded_file_ids, fid_to_fpath, batch, doc_log>>

\* one turn of the while True loop over file_batches.retrieve
PollBatch ==
    /\ upc = "poll"
    /\ UNCHANGED <<askVars, setupVars>>
    /\ \/ /\ batch_status' = "completed"
          /\ upc' = "returned"
          /\ UNCHANGED bpolls
       \/ /\ batch_status' = "failed"
          /\ upc' = "exit1"
          /\ UNCHANGED bpolls
       \/ /\ batch_status' \in BatchOtherStatuses
          /\ bpolls < MaxBatchPolls
          /\ bpolls' = bpolls + 1
          /\ UNCHANGED upc
       \/ /\ upc' = "raised"
          /\ UNCHANGED <<batch_status, bpolls>>
    /\ UNCHANGED <<files_with_content, fidx, temp_file_path, disk, tmp_count,
                   uploaded_file_ids, fid_to_fpath, batch, doc_log>>

(***************************************************************************)
(* The assistant and the vector store as the hosted service keeps them:    *)
(* create_or_update_assistant (src/main.py, lines 160-196),                *)
(* verify_assistant_setup (199-211), create_or_retrieve_vector_store       *)
(* (213-231) and update_assistant (285-300).  An identifier is the index   *)
(* of the object in the service's sequence, so a created object always     *)
(* gets an identifier that was never used before.                          *)
(***************************************************************************)
ASSISTANT_NAME == "HOA Document Analyzer"
VECTOR_STORE_NAME == "HOA Documents"
\* objects per page of a list call that passes no limit
PageLimit == 20
\* the name of an object of another application under the same account
OtherName == "Other"

\* the shapes assistant.tool_resources can take
NoResources == [kind |-> "none", ids |-> <<>>]
NoFileSearch == [kind |-> "no_file_search", ids |-> <<>>]
FileSearch(ids) == [kind |-> "file_search", ids |-> ids]
\* tool_resources of an assistant created with tools=[file_search] and no store
FreshResources == {NoResources, NoFileSearch, FileSearch(<<>>)}

Elements(s) == {s[i] : i \in DOMAIN s}

\* tool_resources.file_search.vector_store_ids, as a set
BoundStores(tool_resources) ==
    IF tool_resources.kind = "file_search" THEN Elements(tool_resources.ids) ELSE {}

\* the assistants that exist and carry the name
Live(name) == {a \in DOMAIN assistants : assistants[a].live /\ assistants[a].name = name}

\* the .data of a list call without limit: the first page, which holds the
\* PageLimit newest of the objects of S
FirstPage(S) == {a \in S : Cardinality({b \in S : b > a}) < PageLimit}

\* assistants.data of client.beta.assistants.list()
ListedAssistants == FirstPage({a \in DOMAIN assistants : assistants[a].live})

\* for asst in assistants.data: if asst.name == ASSISTANT_NAME: delete
ToDelete == {a \in ListedAssistants : assistants[a].name = ASSISTANT_NAME}

\* the first k assistants the loop deletes (the list is newest first)
DeletedFirst(k) == {a \in ToDelete : Cardinality({b \in ToDelete : b > a}) < k}

\* the service after assistants.delete on each assistant of S
Deleted(S) ==
    [a \in DOMAIN assistants |->
        IF a \in S THEN [assistants[a] EXCEPT !.live = FALSE] ELSE assistants[a]]

\* the record of a lifecycle call: its outcome and the state it started from
Called(fn, result) ==
    [fn |-> fn, result |-> result, before |-> Len(assistants),
     resources |-> IF assistant \in DOMAIN assistants
                   THEN assistants[assistant].tool_resources ELSE NoResources]

\* create_or_update_assistant: list, delete every assistant with the name,
\* create a fresh one; except Exception: print, raise
create_or_update_assistant ==
    /\ \/ \* assistants.list raises
          /\ last' = Called("create_or_update_assistant", "raised")
          /\ UNCHANGED <<assistants, assistant, prev_assistant>>
       \/ \* assistants.delete raises after k deletions
          \E k \in 0..(Cardinality(ToDelete) - 1) :
              /\ assistants' = Deleted(DeletedFirst(k))
              /\ last' = Called("create_or_update_assistant", "raised")
              /\ UNCHANGED <<assistant, prev_assistant>>
       \/ \* assistants.create raises
          /\ assistants' = Deleted(ToDelete)
          /\ last' = Called("create_or_update_assistant", "raised")
          /\ UNCHANGED <<assistant, prev_assistant>>
       \/ \* return assistant
          \E tool_resources \in FreshResources :
              /\ assistants' = Append(Deleted(ToDelete),
                                      [name |-> ASSISTANT_NAME, live |-> TRUE,
                                       tool_resources |-> tool_resources])
              /\ assistant' = Len(assistants) + 1
              /\ prev_assistant' = assistant
              /\ last' = Called("create_or_update_assistant", "returned")
    /\ UNCHANGED <<vector_stores, vector_store, prev_store, verified>>

\* the stores that carry the name
Stores(name) == {v \in DOMAIN vector_stores : vector_stores[v].name = name}

\* the stores of vector_stores.data that carry VECTOR_STORE_NAME
ListedStores == FirstPage(DOMAIN vector_stores) \cap Stores(VECTOR_STORE_NAME)

\* for vs in vector_stores.data: the first store with the name (newest first)
FirstListed == CHOOSE v \in ListedStores : \A w \in ListedStores : w <= v

\* create_or_retrieve_vector_store: the try block lists the stores and returns
\* the first with the name; a failed listing and the ValueError of the empty
\* search both reach the except clause, which creates a store
create_or_retrieve_vector_store ==
    /\ \E listed \in BOOLEAN :
          IF listed /\ ListedStores # {}
          THEN /\ vector_store' = FirstListed
               /\ prev_store' = vector_store
               /\ last' = Called("create_or_retrieve_vector_store", "returned")
               /\ UNCHANGED vector_stores
          ELSE \/ \* vector_stores.create returns
                  /\ vector_stores' = Append(vector_stores, [name |-> VECTOR_STORE_NAME])
                  /\ vector_store' = Len(vector_stores) + 1
                  /\ prev_store' = vector_store
                  /\ last' = Called("create_or_retrieve_vector_store", "returned")
               \/ \* vector_stores.create raises
                  /\ last' = Called("create_or_retrieve_vector_store", "raised")
                  /\ UNCHANGED <<vector_stores, vector_store, prev_store>>
    /\ UNCHANGED <<assistants, assistant, prev_assistant, verified>>

\* variant: the store is added to the list the assistant already has
UpdatedResourcesAppended(tool_resources, vector_store_id) ==
    FileSearch(Append(tool_resources.ids, vector_store_id))

\* tool_resources={"file_search": {"vector_store_ids": [vector_store_id]}}
UpdatedResources(tool_resources, vector_store_id) == FileSearch(<<vector_store_id>>)

\* the check of update_assistant on the retrieved assistant: AttributeError on
\* tool_resources None, exit(1) when the store is not linked
LinkCheck(tool_resources, vector_store_id) ==
    IF tool_resources.kind = "none" THEN "raised"
    ELSE IF tool_resources.kind = "no_file_search"
            \/ vector_store_id \notin Elements(tool_resources.ids) THEN "exit1"
    ELSE "returned"

\* update_assistant: assistants.update (which the service applies or not),
\* assistants.retrieve, then the check
update_assistant ==
    /\ \/ \* assistants.update raises (it always does for a deleted assistant)
          /\ last' = Called("update_assistant", "raised")
          /\ UNCHANGED assistants
       \/ /\ assistants[assistant].live
          /\ \E applied \in BOOLEAN :
                LET after == IF applied
                             THEN [assistants EXCEPT ![assistant].tool_resources =
                                       UpdatedResources(@, vector_store)]
                             ELSE assistants
                IN /\ assistants' = after
                   /\ \/ \* assistants.retrieve raises
                         last' = Called("update_assistant", "raised")
                      \/ last' = Called("update_assistant",
                                        LinkCheck(after[assistant].tool_resources,
                                                  vector_store))
    /\ UNCHANGED <<vector_stores, assistant, vector_store, prev_assistant, prev_store,
                   verified>>

\* variant: any file-search resources count as configured
IsConfiguredAnyStore(tool_resources, vector_store_id) ==
    tool_resources.kind = "file_search"

\* the condition of verify_assistant_setup, negated
IsConfigured(tool_resources, vector_store_id) ==
    ~ \/ tool_resources.kind = "none"
      \/ tool_resources.kind = "no_file_search"
      \/ vector_store_id \notin Elements(tool_resources.ids)

\* verify_assistant_setup: assistants.retrieve, then the condition
verify_assistant_setup ==
    /\ \/ \* assistants.retrieve raises (it always does for a deleted assistant)
          /\ last' = Called("verify_assistant_setup", "raised")
          /\ UNCHANGED verified
       \/ /\ assistants[assistant].live
          /\ verified' = IF IsConfigured(assistants[assistant].tool_resources,
                                         vector_store)
                         THEN "true" ELSE "false"
          /\ last' = Called("verify_assistant_setup", "returned")
    /\ UNCHANGED <<assistants, vector_stores, assistant, vector_store, prev_assistant,
                   prev_store>>

(***************************************************************************)
(* The lifecycle functions called one after another, in any order, by a    *)
(* caller that keeps the identifiers they return.                          *)
(***************************************************************************)
\* the process is alive and may make another call
MayCall ==
    /\ mpc = "idle"
    /\ exit_code = 0
    /\ ncalls < MaxCalls
    /\ ncalls' = ncalls + 1
    /\ exit_code' = IF last'.result = "exit1" THEN 1 ELSE 0
    /\ UNCHANGED <<mpc, notices, written, askVars, upVars>>

CallCreateOrUpdateAssistant ==
    /\ create_or_update_assistant
    /\ MayCall

CallCreateOrRetrieveVectorStore ==
    /\ create_or_retrieve_vector_store
    /\ MayCall

CallUpdateAssistant ==
    /\ assistant # 0
    /\ vector_store # 0
    /\ update_assistant
    /\ MayCall

CallVerifyAssistantSetup ==
    /\ assistant # 0
    /\ vector_store # 0
    /\ verify_assistant_setup
    /\ MayCall

(***************************************************************************)
(* main (src/main.py, lines 436-479).                                      *)
(***************************************************************************)
ErrorNotice == "An error occurred"
ExitNotice == "Exiting program."

\* variant: exit(1) ends the process at once
SystemExitAtOnce ==
    /\ exit_code' = 1
    /\ mpc' = "terminated"

\* exit(1) raises SystemExit, which except Exception does not catch: the
\* finally clause runs and the process ends with code 1
SystemExit ==
    /\ exit_code' = 1
    /\ mpc' = "finally"

\* an exception reaches except Exception as e
Raised ==
    /\ mpc' = "except"
    /\ UNCHANGED exit_code

\* where main goes after a call with the given outcome
Continue(result, next) ==
    CASE result = "returned" -> mpc' = next /\ UNCHANGED exit_code
      [] result = "exit1" -> SystemExit
      [] result = "raised" -> Raised

\* files_with_content = prepare_files(HOA_DOCS_DIR): exit(1) without eligible
\* files, otherwise the documents whose content could be read (document k has
\* path k); os.listdir may raise
MainPrepareFiles ==
    /\ mpc = "prepare"
    /\ \/ /\ \E n \in 0..MaxDocs : files_with_content' = [k \in 1..n |-> k]
          /\ last' = Called("prepare_files", "returned")
       \/ /\ last' = Called("prepare_files", "exit1")
          /\ UNCHANGED files_with_content
       \/ /\ last' = Called("prepare_files", "raised")
          /\ UNCHANGED files_with_content
    /\ Continue(last'.result, "assistant")
    /\ UNCHANGED <<askVars, fidx, upc, temp_file_path, disk, tmp_count, uploaded_file_ids,
                   fid_to_fpath, batch, batch_status, bpolls, doc_log>>
    /\ UNCHANGED <<assistants, vector_stores, assistant, vector_store, prev_assistant,
                   prev_store, verified, ncalls, notices, written>>

\* assistant = create_or_update_assistant(client)
MainCreateAssistant ==
    /\ mpc = "assistant"
    /\ create_or_update_assistant
    /\ Continue(last'.result, "store")
    /\ UNCHANGED <<askVars, upVars, ncalls, notices, written>>

\* vector_store = create_or_retrieve_vector_store(client), then the call of
\* upload_files_to_vector_store
MainRetrieveStore ==
    /\ mpc = "store"
    /\ create_or_retrieve_vector_store
    /\ Continue(last'.result, "upload")
    /\ upc' = IF last'.result = "returned" THEN "loop" ELSE upc
    /\ UNCHANGED <<askVars, files_with_content, fidx, temp_file_path, disk, tmp_count,
                   uploaded_file_ids, fid_to_fpath, batch, batch_status, bpolls, doc_log>>
    /\ UNCHANGED <<ncalls, notices, written>>

\* fid_to_fpath = upload_files_to_vector_store(...): its return, its exit(1)
\* or the exception that left it
MainAfterUpload ==
    /\ mpc = "upload"
    /\ upc \in {"returned", "exit1", "raised", "raised_in_loop"}
    /\ Continue(CASE upc = "returned" -> "returned"
                  [] upc = "exit1" -> "exit1"
                  [] OTHER -> "raised", "update")
    /\ UNCHANGED <<askVars, upVars>>
    /\ UNCHANGED <<assistants, vector_stores, assistant, vector_store, prev_assistant,
                   prev_store, last, verified, ncalls, notices, written>>

\* update_assistant(client, assistant.id, vector_store.id)
MainUpdateAssistant ==
    /\ mpc = "update"
    /\ update_assistant
    /\ Continue(last'.result, "verify")
    /\ UNCHANGED <<askVars, upVars, ncalls, notices, written>>

\* another client of the account changes the assistant between the update and
\* the verification
ExternalChange ==
    /\ mpc = "verify"
    /\ vector_store \in BoundStores(assistants[assistant].tool_resources)
    /\ \E tool_resources \in FreshResources \cup {FileSearch(<<0>>)} :
           assistants' = [assistants EXCEPT ![assistant].tool_resources = tool_resources]
    /\ UNCHANGED <<askVars, upVars>>
    /\ UNCHANGED <<mpc, vector_stores, assistant, vector_store, prev_assistant, prev_store,
                   last, verified, ncalls, exit_code, notices, written>>

\* variant: the result of the verification is not looked at
MainVerifyIgnored ==
    /\ mpc = "verify"
    /\ verify_assistant_setup
    /\ Continue(last'.result, "ask")
    /\ pc' = IF mpc' = "ask" THEN "start" ELSE pc
    /\ UNCHANGED <<questions, replies, idx, results, threads, thread, run_status, polls,
                   log, summary_table>>
    /\ UNCHANGED <<upVars, ncalls, notices, written>>

\* if not verify_assistant_setup(...): raise Exception(...); otherwise
\* responses = ask_questions(client, assistant.id, EXTRACTION_QUESTIONS)
MainVerify ==
    /\ mpc = "verify"
    /\ verify_assistant_setup
    /\ Continue(IF last'.result = "returned" /\ verified' = "false"
                THEN "raised" ELSE last'.result, "ask")
    /\ pc' = IF mpc' = "ask" THEN "start" ELSE pc
    /\ UNCHANGED <<questions, replies, idx, results, threads, thread, run_status, polls,
                   log, summary_table>>
    /\ UNCHANGED <<upVars, ncalls, notices, written>>

\* os.makedirs(OUTPUT_DIR), then the summary file is written
MainWriteSummary ==
    /\ mpc = "ask"
    /\ pc = "summarised"
    /\ \/ /\ written' = written \cup {"summary"}
          /\ mpc' = "answers"
       \/ /\ Raised
          /\ UNCHANGED written
    /\ UNCHANGED <<askVars, upVars>>
    /\ UNCHANGED <<assistants, vector_stores, assistant, vector_store, prev_assistant,
                   prev_store, last, verified, ncalls, exit_code, notices>>

\* the answers file is written
MainWriteAnswers ==
    /\ mpc = "answers"
    /\ \/ /\ written' = written \cup {"answers"}
          /\ mpc' = "finally"
       \/ /\ Raised
          /\ UNCHANGED written
    /\ UNCHANGED <<askVars, upVars>>
    /\ UNCHANGED <<assistants, vector_stores, assistant, vector_store, prev_assistant,
                   prev_store, last, verified, ncalls, exit_code, notices>>

\* except Exception as e: print(f"An error occurred: {e}")
MainExcept ==
    /\ mpc = "except"
    /\ notices' = Append(notices, ErrorNotice)
    /\ mpc' = "finally"
    /\ UNCHANGED <<askVars, upVars>>
    /\ UNCHANGED <<assistants, vector_stores, assistant, vector_store, prev_assistant,
                   prev_store, last, verified, ncalls, exit_code, written>>

\* finally: print("Exiting program."), after which the process ends
MainFinally ==
    /\ mpc = "finally"
    /\ notices' = Append(notices, ExitNotice)
    /\ mpc' = "terminated"
    /\ UNCHANGED <<askVars, upVars>>
    /\ UNCHANGED <<assistants, vector_stores, assistant, vector_store, prev_assistant,
                   prev_store, last, verified, ncalls, exit_code, written>>

(***************************************************************************)
(* Initial states and specifications.                                      *)
(***************************************************************************)
\* the lists over S of length at most n
Lists(S, n) == UNION {[1..k -> S] : k \in 0..n}

AskIdle ==
    /\ idx = 0
    /\ results = <<>>
    /\ threads = <<>>
    /\ thread = 0
    /\ run_status = <<>>
    /\ polls = 0
    /\ log = <<>>
    /\ summary_table = <<>>

UploadIdle ==
    /\ fidx = 0
    /\ temp_file_path = 0
    /\ disk = {}
    /\ tmp_count = 0
    /\ uploaded_file_ids = <<>>
    /\ fid_to_fpath = {}
    /\ batch = <<>>
    /\ batch_status = "none"
    /\ bpolls = 0
    /\ doc_log = <<>>

\* no lifecycle call was made
NoCall == [fn |-> "none", result |-> "none", before |-> 0, resources |-> NoResources]

SetupIdle ==
    /\ assistant = 0
    /\ vector_store = 0
    /\ prev_assistant = 0
    /\ prev_store = 0
    /\ last = NoCall
    /\ verified = "none"
    /\ ncalls = 0
    /\ exit_code = 0
    /\ notices = <<>>
    /\ written = {}

\* main is not running and the service holds nothing
NoService ==
    /\ mpc = "idle"
    /\ assistants = <<>>
    /\ vector_stores = <<>>
    /\ SetupIdle

\* questions handed to ask_questions: lists over the first built-in questions
QuestionPool == {Q01, Q02}

InitAsk ==
    /\ questions \in Lists(QuestionPool, MaxQuestions)
    /\ replies = MessagePool
    /\ pc = "start"
    /\ AskIdle
    /\ files_with_content = <<>>
    /\ upc = "idle"
    /\ UploadIdle
    /\ NoService

NextAsk ==
    \/ AskNext
    \/ CreateThread
    \/ PostMessage
    \/ CreateRun
    \/ RetrieveRun
    \/ ReadMessages
    \/ AskDone
    \/ CreateSummaryTable

SpecAsk == InitAsk /\ [][NextAsk]_vars

\* a question that shares its first PrefixLen characters with question i and
\* differs afterwards, and one that is a character short of the prefix
Edited(i) == Prefix(EXTRACTION_QUESTIONS[i], PrefixLen) \o <<"?">>
Short(i) == Prefix(EXTRACTION_QUESTIONS[i], PrefixLen - 1)

\* answer records handed to create_summary_table directly
RecordPool ==
    {ExceptionRecord(Edited(1), ConnectionError),
     CompletedRecord(Q01, MsgDelimited, <<>>),
     FailureRecord(Q02, Failed),
     CompletedRecord(Short(1), MsgCited, <<FileName("file-1"), FileName("file-2")>>),
     FailureRecord(Q20, Expired)}

InitSummary ==
    /\ questions = <<>>
    /\ replies = MessagePool
    /\ pc = "returned"
    /\ idx = 0
    /\ results \in Lists(RecordPool, MaxResponses)
    /\ threads = <<>>
    /\ thread = 0
    /\ run_status = <<>>
    /\ polls = 0
    /\ log = <<>>
    /\ summary_table = <<>>
    /\ files_with_content = <<>>
    /\ upc = "idle"
    /\ UploadIdle
    /\ NoService

NextSummary == CreateSummaryTable

SpecSummary == InitSummary /\ [][NextSummary]_vars

\* the record ask_question returns for built-in question i on each of its
\* three return paths
RecordKinds == {"completed", "failure", "exception"}
BuiltInRecord(i, kind) ==
    CASE kind = "completed" ->
             CompletedRecord(EXTRACTION_QUESTIONS[i], MsgCited,
                             <<FileName("file-1"), FileName("file-2")>>)
      [] kind = "failure" -> FailureRecord(EXTRACTION_QUESTIONS[i], Failed)
      [] kind = "exception" -> ExceptionRecord(EXTRACTION_QUESTIONS[i], ConnectionError)

\* ask_questions has returned on EXTRACTION_QUESTIONS: record i carries
\* question i; one question took one return path, the others another
InitBuiltIn ==
    /\ questions = EXTRACTION_QUESTIONS
    /\ replies = MessagePool
    /\ pc = "returned"
    /\ idx = Len(EXTRACTION_QUESTIONS)
    /\ \E j \in 1..Len(EXTRACTION_QUESTIONS), a \in RecordKinds, b \in RecordKinds :
          results = [i \in 1..Len(EXTRACTION_QUESTIONS) |->
                        BuiltInRecord(i, IF i = j THEN a ELSE b)]
    /\ threads = <<>>
    /\ thread = 0
    /\ run_status = <<>>
    /\ polls = 0
    /\ log = <<>>
    /\ summary_table = <<>>
    /\ files_with_content = <<>>
    /\ upc = "idle"
    /\ UploadIdle
    /\ NoService

SpecBuiltIn == InitBuiltIn /\ [][NextSummary]_vars

\* response texts handed to the parse of ask_question: a lead (the label, or
\* none), a body (empty, short, of exactly SummaryLen characters, longer, with
\* white space at the cut) and a tail (no delimiter, one, an empty summary, two)
LongText(n) == [k \in 1..n |-> <<"a","b","c","d","e","f","g">>[(k % 7) + 1]]
ResponsePool ==
    LET ResponseLeads ==
            {<<>>, DetailedLabel \o <<"\n">>, <<" ">> \o DetailedLabel \o <<" ">>}
        ResponseBodies ==
            {<<>>,
             <<"T","h","e"," ","H","O","A",".">>,
             LongText(SummaryLen),
             LongText(SummaryLen + 1),
             LongText(SummaryLen - 1) \o <<" ","z">>}
        ResponseTails ==
            {<<>>,
             <<"\n","\n">> \o SummaryDelimiter \o <<"\n","H","O","A","\n">>,
             <<" ">> \o SummaryDelimiter,
             <<" ">> \o SummaryDelimiter \o <<" ","b"," ">> \o SummaryDelimiter \o <<" ","c">>}
    IN  {lead \o body \o tail :
            lead \in ResponseLeads, body \in ResponseBodies, tail \in ResponseTails}

\* one question whose completed run has one of the response texts
InitParse ==
    /\ questions = <<Q01>>
    /\ \E response \in ResponsePool :
          replies = {[content |-> <<TextBlock(response, <<>>)>>]}
    /\ pc = "start"
    /\ AskIdle
    /\ files_with_content = <<>>
    /\ upc = "idle"
    /\ UploadIdle
    /\ NoService

SpecParse == InitParse /\ [][NextAsk]_vars

\* ask_questions on two questions, with the polling loop unbounded; the
\* process keeps taking steps (weak fairness of the whole program), while
\* nothing is assumed of the statuses the service reports
LiveQuestions == <<Q01, Q02>>

InitLive ==
    /\ questions = LiveQuestions
    /\ replies = MessagePool
    /\ pc = "start"
    /\ AskIdle
    /\ files_with_content = <<>>
    /\ upc = "idle"
    /\ UploadIdle
    /\ NoService

NextLive ==
    \/ AskNext
    \/ CreateThread
    \/ PostMessage
    \/ CreateRun
    \/ RetrieveRun
    \/ RetrieveRunAgain
    \/ ReadMessages
    \/ AskDone
    \/ CreateSummaryTable

SpecLive == InitLive /\ [][NextLive]_vars /\ WF_vars(NextLive)

\* annotations of a text block: citations of files with different names, of
\* two files with one name (file-3, file-4), and a file_path annotation
AnnotationPool ==
    {FileCitation("file-1"), FileCitation("file-3"), FileCitation("file-4"),
     FilePath("file-2")}
\* a content block without text
ImageBlock == [type |-> "image_file"]
\* assistant messages: one text block, or a text block, an image and a second
\* text block with one annotation
CitedMessages ==
    {[content |-> <<TextBlock(RespPlain, a)>>] : a \in Lists(AnnotationPool, MaxAnnotations)}
    \cup {[content |-> <<TextBlock(RespPlain, a), ImageBlock, TextBlock(<<>>, <<b>>)>>] :
             a \in Lists(AnnotationPool, MaxAnnotations), b \in AnnotationPool}

\* one question whose completed run has one of the cited messages
InitCite ==
    /\ questions = <<Q01>>
    /\ \E m \in CitedMessages : replies = {m}
    /\ pc = "start"
    /\ AskIdle
    /\ files_with_content = <<>>
    /\ upc = "idle"
    /\ UploadIdle
    /\ NoService

SpecCite == InitCite /\ [][NextAsk]_vars

\* documents handed to upload_files_to_vector_store: document k has path k
InitUpload ==
    /\ \E n \in 0..MaxDocs : files_with_content = [k \in 1..n |-> k]
    /\ upc = "loop"
    /\ UploadIdle
    /\ NoService
    /\ questions = <<>>
    /\ replies = MessagePool
    /\ pc = "idle"
    /\ AskIdle

NextUpload ==
    \/ CreateTemp
    \/ WriteTemp
    \/ UploadFile
    \/ Cleanup
    \/ SubmitBatch
    \/ PollBatch

SpecUpload == InitUpload /\ [][NextUpload]_vars

\* what the account holds before the program runs: k assistants named
\* ASSISTANT_NAME left by earlier runs, then j newer assistants of other
\* applications; a store of another application and at most one store named
\* VECTOR_STORE_NAME
InitService(others) ==
    /\ \E k \in 0..MaxExisting, j \in others :
          assistants = [a \in 1..(k + j) |->
                           [name |-> IF a <= k THEN ASSISTANT_NAME ELSE OtherName,
                            live |-> TRUE, tool_resources |-> FileSearch(<<>>)]]
    /\ \E k \in 0..1 :
          vector_stores = [v \in 1..(k + 1) |->
                              [name |-> IF v = 1 THEN OtherName ELSE VECTOR_STORE_NAME]]

InitSetup ==
    /\ InitService({1, PageLimit})
    /\ mpc = "idle"
    /\ SetupIdle
    /\ questions = <<>>
    /\ replies = MessagePool
    /\ pc = "idle"
    /\ AskIdle
    /\ files_with_content = <<>>
    /\ upc = "idle"
    /\ UploadIdle

NextSetup ==
    \/ CallCreateOrUpdateAssistant
    \/ CallCreateOrRetrieveVectorStore
    \/ CallUpdateAssistant
    \/ CallVerifyAssistantSetup

SpecSetup == InitSetup /\ [][NextSetup]_vars

\* the questions main hands to ask_questions: the first built-in question (the
\* lists of several questions are those of InitAsk)
MainQuestions == <<EXTRACTION_QUESTIONS[1]>>

Init ==
    /\ InitService({1})
    /\ mpc = "prepare"
    /\ SetupIdle
    /\ questions = MainQuestions
    /\ replies = MessagePool
    /\ pc = "idle"
    /\ AskIdle
    /\ files_with_content = <<>>
    /\ upc = "idle"
    /\ UploadIdle

Next ==
    \/ MainPrepareFiles
    \/ MainCreateAssistant
    \/ MainRetrieveStore
    \/ CreateTemp
    \/ WriteTemp
    \/ UploadFile
    \/ Cleanup
    \/ SubmitBatch
    \/ PollBatch
    \/ MainAfterUpload
    \/ MainUpdateAssistant
    \/ ExternalChange
    \/ MainVerify
    \/ AskNext
    \/ CreateThread
    \/ PostMessage
    \/ CreateRun
    \/ RetrieveRun
    \/ ReadMessages
    \/ AskDone
    \/ CreateSummaryTable
    \/ MainWriteSummary
    \/ MainWriteAnswers
    \/ MainExcept
    \/ MainFinally

Spec == Init /\ [][Next]_vars

(***************************************************************************)
(* Properties.                                                             *)
(***************************************************************************)
FailureStatuses == {Failed, Cancelled, Expired}

\* the threads created for question i
ThreadsOf(i) == {t \in 1..Len(threads) : threads[t].owner = i}

\* ask_questions was called with the leading built-in questions, as main does
BuiltInQuestions == questions = SubSeq(EXTRACTION_QUESTIONS, 1, Len(questions))

\* C1: a 'Processing error' record is returned only after the question has been
\* tried MAX_RETRIES times; a single exception does not yet yield the sentinel.
C1_SentinelOnlyAfterRetries ==
    \A i \in 1..Len(results) :
        (log[i].path = "exception" /\ results[i].summary = ProcessingError)
            => log[i].attempts >= MAX_RETRIES

\* C2: ask_questions returns exactly one record per question, in question order,
\* record i carrying question i, whatever the outcome of each question; every
\* question is asked even after an earlier one failed.
C2_OneRecordPerQuestion ==
    /\ Len(results) <= Len(questions)
    /\ \A i \in 1..Len(results) : results[i].question = questions[i]
    /\ pc = "start" => Len(results) = idx
    /\ pc \in {"returned", "summarised"} =>
          /\ Len(results) = Len(questions)
          /\ Len(log) = Len(questions)
          /\ \A i \in 1..Len(log) : log[i].path # "pending"

C2_Witness ==
    /\ pc = "returned"
    /\ Len(results) = 2
    /\ log[1].path = "exception"
    /\ log[2].path = "completed"

\* C3: a call of ask_question takes no further step after the service reported
\* failed, cancelled or expired: once such a status ended the polling of
\* question i, the record of question i has been returned, its answer contains
\* the status name, and question i was tried once: one thread, one message, one
\* run.
C3_InbandFailureNotRetried ==
    /\ run_status \notin FailureStatuses
    /\ \A i \in 1..Len(log) :
        log[i].status \in FailureStatuses =>
            /\ i <= Len(results)
            /\ log[i].path = "inband"
            /\ Contains(results[i].answer, log[i].status)
            /\ results[i].summary = DocumentSearchError
            /\ log[i].attempts = 1
            /\ Cardinality(ThreadsOf(i)) = 1
            /\ \A t \in ThreadsOf(i) :
                  Len(threads[t].messages) = 1 /\ threads[t].runs = 1

C3_Witness ==
    /\ Len(results) = 2
    /\ log[1].status = Cancelled
    /\ results[1].answer = SearchFailed \o Cancelled
    /\ pc = "returned"

\* C4: the assistant message is read only after status completed was observed, a
\* record built from response text belongs to a run seen completed, and after a
\* non-terminal status the call is still polling and has returned nothing.
C4_NoAnswerBeforeTerminal ==
    /\ pc = "messages" => run_status = Completed
    /\ run_status \in OtherStatuses => (pc = "poll" /\ Len(results) = idx - 1)
    /\ \A i \in 1..Len(results) :
          /\ log[i].path = "completed" => log[i].status = Completed
          /\ log[i].path = "inband" => log[i].status \in FailureStatuses
          /\ log[i].status \notin TerminalStatuses => log[i].path = "exception"

C4_Witness ==
    /\ Len(results) >= 1
    /\ log[1].path = "completed"
    /\ log[1].status = Completed
    /\ results[1].summary = <<"H","O","A">>

\* C5: every sentinel record (exception path or in-band failure status) has a
\* non-empty answer, the source 'N/A' and no raw citations.
C5_SentinelDescribesFailure ==
    \A i \in 1..Len(results) :
        log[i].path \in {"exception", "inband"} =>
            /\ results[i].answer # <<>>
            /\ results[i].source = NA
            /\ results[i].source_citations = <<>>

\* C6 as stated: for a built-in question whose run ended failed, the answer
\* contains 'failed' and the finding of its category equals the answer text.
C6_FindingIsAnswerText ==
    (pc = "summarised" /\ BuiltInQuestions) =>
        \A i \in 1..Len(questions) :
            log[i].status = Failed =>
                /\ Contains(results[i].answer, Failed)
                /\ summary_table[i].Findings = results[i].answer
                /\ summary_table[i].Findings # NoInformationFound

\* C6 as amended: for a built-in question whose run ended failed, the answer
\* contains 'failed' and the finding of its category is the summary field of
\* that record, 'Document search error', not the placeholder.
C6_FindingIsRecordSummary ==
    (pc = "summarised" /\ BuiltInQuestions) =>
        \A i \in 1..Len(questions) :
            log[i].status = Failed =>
                /\ Contains(results[i].answer, Failed)
                /\ summary_table[i].Findings = results[i].summary
                /\ summary_table[i].Findings = DocumentSearchError
                /\ summary_table[i].Findings # NoInformationFound

C6_Witness ==
    /\ pc = "summarised"
    /\ questions = <<Q01, Q02>>
    /\ log[1].path = "completed"
    /\ log[2].status = Failed
    /\ summary_table[2].Findings = DocumentSearchError

\* the loop over the documents has been left, normally or not
UploadLoopLeft ==
    \/ upc \in {"poll", "returned", "exit1", "raised", "raised_in_loop"}
    \/ upc = "loop" /\ fidx = Len(files_with_content)

\* the documents processed without a failure of their own, in list order
RECURSIVE OkDocs(_)
OkDocs(n) ==
    IF n = 0 THEN <<>>
    ELSE OkDocs(n - 1) \o (IF doc_log[n] = "ok" THEN <<n>> ELSE <<>>)

\* C7: after the documents have been processed no temporary file remains on
\* disk, whichever step failed for whichever document.
C7_NoTempFileRemains == UploadLoopLeft => disk = {}

\* C8: a failure on one document never leaves the loop, every document is
\* processed, and exactly the documents without a failure of their own are
\* uploaded, submitted as the batch and returned in the mapping.
C8_FailureSkipsOnlyThatDocument ==
    /\ upc # "raised_in_loop"
    /\ UploadLoopLeft =>
          /\ Len(doc_log) = Len(files_with_content)
          /\ uploaded_file_ids = OkDocs(Len(doc_log))
    /\ batch # <<>> => batch = OkDocs(Len(doc_log))
    /\ upc = "returned" =>
          fid_to_fpath = {<<uploaded_file_ids[k], files_with_content[uploaded_file_ids[k]]>> :
                             k \in 1..Len(uploaded_file_ids)}

\* C9: create_summary_table returns one entry per category, in category order,
\* for every list of answer records.
C9_OneEntryPerCategory ==
    pc = "summarised" =>
        /\ Len(summary_table) = Len(categories)
        /\ \A i \in 1..Len(categories) : summary_table[i].Category = categories[i]

C9_Witness ==
    /\ pc = "summarised"
    /\ Len(results) = 3
    /\ results[1] = results[3]
    /\ results[2].question = Q20
    /\ summary_table[2].Findings = NoInformationFound

\* C10: the entry of category i carries the summary of the first record whose
\* question agrees with EXTRACTION_QUESTIONS[i] on its first 50 characters,
\* whatever follows them.
C10_FirstPrefixMatchSelected ==
    pc = "summarised" =>
        \A i \in 1..Len(categories) : \A k \in 1..Len(results) :
            LET agrees(j) ==
                    /\ Len(results[j].question) >= PrefixLen
                    /\ \A c \in 1..PrefixLen :
                          results[j].question[c] = EXTRACTION_QUESTIONS[i][c]
            IN  (agrees(k) /\ \A j \in 1..(k - 1) : ~agrees(j))
                    => summary_table[i].Findings = results[k].summary

C10_Witness ==
    /\ pc = "summarised"
    /\ Len(results) >= 2
    /\ results[1].question = Edited(1)
    /\ results[2].question = Q01
    /\ results[1].question # EXTRACTION_QUESTIONS[1]
    /\ summary_table[1].Findings = results[1].summary
    /\ summary_table[1].Findings # results[2].summary

\* question q agrees with EXTRACTION_QUESTIONS[i] on the first 50 characters
AgreesOnPrefix(q, i) ==
    /\ Len(q) >= PrefixLen
    /\ \A c \in 1..PrefixLen : q[c] = EXTRACTION_QUESTIONS[i][c]

\* C11: a category whose question no answer record prefix-matches gets the
\* placeholder entry: finding 'No information found.' and source 'N/A'.
C11_PlaceholderOnMiss ==
    pc = "summarised" =>
        \A i \in 1..Len(categories) :
            (\A k \in 1..Len(results) : ~AgreesOnPrefix(results[k].question, i))
                => /\ summary_table[i].Category = categories[i]
                   /\ summary_table[i].Findings = NoInformationFound
                   /\ summary_table[i].Source = NA

C11_Witness ==
    /\ pc = "summarised"
    /\ Len(results) = 2
    /\ results[1].question = Short(1)
    /\ results[2].question = Q02
    /\ summary_table[1].Findings = NoInformationFound
    /\ summary_table[2].Findings # NoInformationFound

\* the response text and the record of question i, when its run completed
ResponseOf(m) == m.content[1].value
TextBefore(response) == SubSeq(response, 1, Find(response, SummaryDelimiter) - 1)
TextAfter(response) ==
    SubSeq(response, Find(response, SummaryDelimiter) + Len(SummaryDelimiter),
           Len(response))

\* C12: for a completed run, without the delimiter 'SUMMARY:' the summary is the
\* first 200 characters of the detailed answer (the response without the label,
\* stripped); with the delimiter the answer is the text before it (without the
\* label, stripped) and the summary the text after it (stripped).
C12_SummaryFallbackAndSplit ==
    \A i \in 1..Len(results) : \A m \in replies :
        log[i].path = "completed" =>
            IF ~Contains(ResponseOf(m), SummaryDelimiter)
            THEN /\ results[i].answer = Strip(Replace(ResponseOf(m), DetailedLabel, <<>>))
                 /\ results[i].summary =
                       [c \in 1..Min(SummaryLen, Len(results[i].answer)) |->
                           results[i].answer[c]]
            ELSE /\ results[i].answer =
                       Strip(Replace(TextBefore(ResponseOf(m)), DetailedLabel, <<>>))
                 /\ results[i].summary = Strip(TextAfter(ResponseOf(m)))

\* the fallback half of C12 alone
FallbackHolds ==
    \A i \in 1..Len(results) : \A m \in replies :
        (log[i].path = "completed" /\ ~Contains(ResponseOf(m), SummaryDelimiter)) =>
            /\ results[i].answer = Strip(Replace(ResponseOf(m), DetailedLabel, <<>>))
            /\ results[i].summary =
                  [c \in 1..Min(SummaryLen, Len(results[i].answer)) |->
                      results[i].answer[c]]

\* a fatal setup condition was met: no eligible document, no document uploaded
\* or batch failed (both exit(1) of upload_files_to_vector_store), assistant
\* not linked after update_assistant, verification false
FatalSetup ==
    \/ last.fn = "prepare_files" /\ last.result = "exit1"
    \/ upc = "exit1"
    \/ last.fn = "update_assistant" /\ last.result = "exit1"
    \/ verified = "false"

\* ask_questions was entered or a thread exists
Opened == threads # <<>> \/ pc # "idle"

\* C13: on every fatal setup condition the run aborts at once: no thread is
\* opened, no question is submitted and neither output file is written; a
\* question is submitted only after the batch was seen completed and the
\* binding was verified.
C13_FatalSetupAborts ==
    /\ FatalSetup => /\ ~Opened
                     /\ results = <<>>
                     /\ written = {}
                     /\ mpc \in {"upload", "except", "finally", "terminated"}
    /\ Opened => /\ batch_status = "completed"
                 /\ verified = "true"

C13_Witness ==
    /\ mpc = "terminated"
    /\ last.fn = "update_assistant"
    /\ last.result = "exit1"
    /\ exit_code = 1
    /\ threads = <<>>
    /\ written = {}

\* C14: all uploaded file ids are submitted as one batch; the function returns
\* only on status completed, stays in the polling loop on any other status
\* that is not failed, and on failed the run ends with exit code 1 without
\* returning.
C14_BatchPolledToTerminal ==
    /\ batch_status # "none" => batch = uploaded_file_ids /\ batch # <<>>
    /\ upc = "returned" => batch_status = "completed"
    /\ mpc \in {"update", "verify", "ask", "answers"} => batch_status = "completed"
    /\ batch_status \in BatchOtherStatuses => upc \in {"poll", "raised"}
    /\ batch_status = "failed" => /\ upc = "exit1"
                                  /\ mpc \in {"upload", "finally", "terminated"}
                                  /\ mpc # "upload" => exit_code = 1
                                  /\ written = {}

C14_Witness ==
    /\ batch_status = "failed"
    /\ bpolls > 0
    /\ Len(batch) > 1
    /\ mpc = "terminated"
    /\ exit_code = 1

\* C15: whenever main ends (normal completion, an exception in any phase, or
\* exit(1)), the finally clause has run: 'Exiting program.' is the last notice
\* printed; and main never stops anywhere else.
C15_FinallyAlwaysReached ==
    /\ mpc = "terminated" => /\ notices # <<>>
                             /\ notices[Len(notices)] = ExitNotice
    /\ mpc # "terminated" => ENABLED Next

C15_Witness ==
    /\ mpc = "terminated"
    /\ exit_code = 1
    /\ upc = "exit1"
    /\ notices = <<ExitNotice>>

\* the last lifecycle call was fn and it returned
Returned(fn) == last.fn = fn /\ last.result = "returned"

\* C16: after a successful create_or_update_assistant exactly one assistant
\* named ASSISTANT_NAME exists, the returned one; every assistant with that name
\* listed by the call is deleted; the returned identifier did not exist before
\* the call and differs from the one the previous successful call returned.
C16_DeleteAndRecreate ==
    Returned("create_or_update_assistant") =>
        /\ Live(ASSISTANT_NAME) = {assistant}
        /\ \A a \in 1..last.before :
               assistants[a].name = ASSISTANT_NAME => ~assistants[a].live
        /\ assistant > last.before
        /\ assistant # prev_assistant

\* what does hold of create_or_update_assistant: the returned identifier is
\* new, and every listed assistant with the name is deleted
FreshIdentifier ==
    Returned("create_or_update_assistant") =>
        /\ assistant > last.before
        /\ assistant # prev_assistant
        /\ assistants[assistant].live
        /\ Live(ASSISTANT_NAME) \cap ListedAssistants = {assistant}

\* C17: create_or_retrieve_vector_store returns the existing store named
\* VECTOR_STORE_NAME when there is one and creates a store only when there is
\* none: at most one store has the name afterwards, and a second call returns
\* the identifier the first returned, also when listing the stores raises.
C17_CreateIfAbsent ==
    Returned("create_or_retrieve_vector_store") =>
        /\ Cardinality(Stores(VECTOR_STORE_NAME)) <= 1
        /\ prev_store # 0 => vector_store = prev_store

\* C18: after a successful update_assistant the store is among the stores the
\* assistant is bound to; a call on an assistant already bound to the store
\* does not end in exit(1) and, when it returns, leaves the bound stores as
\* they were.
C18_BindIdempotent ==
    last.fn = "update_assistant" =>
        /\ last.result = "returned" =>
               vector_store \in BoundStores(assistants[assistant].tool_resources)
        /\ vector_store \in BoundStores(last.resources) =>
               /\ last.result # "exit1"
               /\ last.result = "returned" =>
                      assistants[assistant].tool_resources = last.resources

C18_Witness ==
    /\ Returned("update_assistant")
    /\ vector_store \in BoundStores(last.resources)
    /\ assistants[assistant].tool_resources = FileSearch(<<vector_store>>)

\* the ways an assistant can fail to be bound to the store
Mismatches == FreshResources \cup {FileSearch(<<0>>)}

\* C19: verify_assistant_setup returns true exactly when the store is among
\* the stores of the retrieved assistant and false on every kind of mismatch;
\* after a false result main asks no question.
C19_VerifyReturnsBinding ==
    /\ verified # "none" =>
           (verified = "true"
               <=> vector_store \in BoundStores(assistants[assistant].tool_resources))
    /\ vector_store # 0 =>
           \A tool_resources \in Mismatches : ~IsConfigured(tool_resources, vector_store)
    /\ verified = "false" => /\ ~Opened
                             /\ exit_code = 0
                             /\ mpc \in {"except", "finally", "terminated"}

C19_Witness ==
    /\ verified = "false"
    /\ assistants[assistant].tool_resources = FileSearch(<<0>>)
    /\ mpc = "terminated"
    /\ notices = <<ErrorNotice, ExitNotice>>
    /\ threads = <<>>

\* C20: every thread holds at most one user turn, the prompt of the one
\* question it was created for, and at most one run; no two threads belong to
\* the same question; a question answered from its run has exactly one turn and
\* one run; the thread of question i+1 exists only once the records of
\* questions 1..i exist.
C20_FreshThreadPerQuestion ==
    /\ \A t \in 1..Len(threads) :
           /\ Len(threads[t].messages) <= 1
           /\ threads[t].runs <= 1
           /\ \A k \in 1..Len(threads[t].messages) :
                  threads[t].messages[k].content
                      = SearchPrompt \o questions[threads[t].owner]
           /\ Len(results) >= threads[t].owner - 1
           /\ \A u \in 1..Len(threads) : threads[u].owner = threads[t].owner => u = t
    /\ \A i \in 1..Len(results) :
           log[i].path \in {"completed", "inband"} =>
               \E t \in ThreadsOf(i) : Len(threads[t].messages) = 1 /\ threads[t].runs = 1

C20_Witness ==
    /\ Len(results) = 2
    /\ Len(threads) = 2
    /\ questions[1] # questions[2]
    /\ log[1].path = "completed"
    /\ log[2].path = "completed"
\* the annotations of the text blocks of a message, block after block
RECURSIVE Annotations(_)
Annotations(content) ==
    IF content = <<>> THEN <<>>
    ELSE (IF Head(content).type = "text" THEN Head(content).annotations ELSE <<>>)
         \o Annotations(Tail(content))

\* the positions of the file-citation annotations, and the k-th of them
CitedAt(anns) == {p \in 1..Len(anns) : anns[p].type = "file_citation"}
Kth(P, k) == CHOOSE p \in P : Cardinality({q \in P : q < p}) = k - 1

\* the distinct document names the file citations resolve to
CitedNames(anns) == {FileName(anns[p].file_id) : p \in CitedAt(anns)}

\* C21: the record returned on a completed run has in 'source' each distinct
\* document name cited by a file-citation annotation of the assistant turn
\* exactly once, joined by ', ' in some order ('No specific sources cited'
\* when there is none), and in 'source_citations' one citation per
\* file-citation annotation, in annotation order, duplicates kept.
C21_SourcesDeduplicatedCitationsKept ==
    \A i \in 1..Len(results) : \A m \in replies :
        log[i].path = "completed" =>
            LET anns == Annotations(m.content)
                P == CitedAt(anns)
                names == CitedNames(anns)
                cites == results[i].source_citations
            IN  /\ Len(cites) = Cardinality(P)
                /\ \A k \in 1..Len(cites) : cites[k] = anns[Kth(P, k)]
                /\ IF P = {} THEN results[i].source = NoSourcesCited
                   ELSE \E s \in [1..Cardinality(names) -> names] :
                            /\ \A x \in names : \E k \in DOMAIN s : s[k] = x
                            /\ results[i].source = Join(CommaSpace, s)

C21_Witness ==
    /\ Len(results) = 1
    /\ log[1].path = "completed"
    /\ results[1].source_citations
          = <<FileCitation("file-3"), FileCitation("file-4"), FileCitation("file-3")>>
    /\ results[1].source = FileName("file-3")
\* the service assumption: no run is polled for ever without a terminal
\* status being reported or a service call raising
RunsEnd == []<>(pc # "poll" \/ run_status \in TerminalStatuses)

\* ask_questions has returned all records
AllReturned == pc \in {"returned", "summarised"} /\ Len(results) = Len(questions)

\* the polling loop is left only on a reported completed or failure status or
\* on an exception
LeavesPollOnReport ==
    (pc = "poll" /\ pc' # "poll") =>
        \/ pc' = "messages" /\ run_status' = Completed
        \/ log'[idx].path = "inband" /\ log'[idx].status \in FailureStatuses
        \/ log'[idx].path = "exception"

\* C22: if every run eventually reports a terminal status or a service call
\* raises, every call of ask_question returns its record and ask_questions
\* returns all records; the polling loop itself has no other way out (no
\* timeout, no cancellation).
C22_ReturnsIfRunsEnd ==
    /\ RunsEnd => <>AllReturned
    /\ \A i \in 1..Len(LiveQuestions) :
           RunsEnd => ((idx = i /\ pc = "thread") ~> Len(results) >= i)
    /\ [][LeavesPollOnReport]_vars

C22_Witness ==
    /\ AllReturned
    /\ pc = "returned"
    /\ log[1].path = "completed"
    /\ log[2].path = "inband"

\* without the service assumption the batch need not return: this formula is
\* violated by a run whose status alternates between queued and in_progress
ReturnsUnconditionally == <>AllReturned
\* no built-in question starts with the 50-character prefix of another one
PrefixesDistinct ==
    \A i \in 1..Len(EXTRACTION_QUESTIONS) : \A j \in 1..Len(EXTRACTION_QUESTIONS) :
        StartsWith(EXTRACTION_QUESTIONS[j], Prefix(EXTRACTION_QUESTIONS[i], PrefixLen))
            => i = j

\* C23: for the records ask_questions returns over EXTRACTION_QUESTIONS, entry
\* i of the summary table is the positional one: Category categories[i],
\* Findings the summary of record i, Source the source_citations of record i;
\* the two lists have the same length and no question starts with the prefix
\* of another.
C23_PrefixMatchIsPositional ==
    /\ Len(categories) = Len(EXTRACTION_QUESTIONS)
    /\ PrefixesDistinct
    /\ pc = "summarised" =>
           /\ Len(summary_table) = Len(EXTRACTION_QUESTIONS)
           /\ \A i \in 1..Len(EXTRACTION_QUESTIONS) :
                  /\ results[i].question = EXTRACTION_QUESTIONS[i]
                  /\ summary_table[i].Category = categories[i]
                  /\ summary_table[i].Findings = results[i].summary
                  /\ summary_table[i].Source = results[i].source_citations

C23_Witness ==
    /\ pc = "summarised"
    /\ Len(results) = Len(EXTRACTION_QUESTIONS)
    /\ results[1].summary = ProcessingError
    /\ summary_table[1].Findings = ProcessingError
    /\ summary_table[2].Findings = DocumentSearchError
    /\ summary_table[Len(categories)].Category = "Resident Engagement"
=============================================================================
